---- MODULE Spec2Model ----
(***************************************************************************)
(* Model of the billing application in src/billing_app_1.py: the three     *)
(* tables (bills, bill_items, products), and one action per Flask route.   *)
(* Spec runs the routes that read or write bills and bill_items, on a      *)
(* catalog that stays as init_db seeds it; SpecCatalog runs every route,   *)
(* the catalog routes (/api/products) on many requests and the bill routes *)
(* on few; SpecLines runs the routes that build and show bills of several  *)
(* items.                                                                  *)
(* Every route runs in its own session; a commit that raises               *)
(* IntegrityError is never followed by a second commit, so the session's   *)
(* writes are discarded and the tables keep their previous contents.       *)
(* A redirect answer (302) ends the handler: following it is a new request *)
(* of the client, i.e. a later action.                                     *)
(***************************************************************************)
EXTENDS Integers, Sequences, FiniteSets, TLC

(* ------------------------------ bounds -------------------------------- *)
MaxBills == 2
MaxItems == 1

(* --------------------------- value encoding --------------------------- *)
\* Python None / SQL NULL in a Text column, and a key absent from a form.
None == "<None>"
Missing == "<missing>"
\* date.today().isoformat()
Today == "2026-11-01"

\* str(n) for the ids the model creates
str(n) == ToString(n)

\* int(s): the integer literals the requests of the model carry, by value.
\* int() of a string outside the table raises ValueError.
IntRange == (0 - 1)..2
IntLiterals == [s \in { ToString(n) : n \in IntRange } |->
                   CHOOSE n \in IntRange : ToString(n) = s]
\* float(s) accepts every int literal and also decimal notation.
FloatLiterals == IntLiterals @@ ("350.00" :> 350)

IsInt(s) == s \in DOMAIN IntLiterals
IsFloat(s) == s \in DOMAIN FloatLiterals
int(s) == IntLiterals[s]
float(s) == FloatLiterals[s]

(* ------------------------------- state -------------------------------- *)
VARIABLES
    bills,        \* rows of table bills, in insertion order
    items,        \* rows of table bill_items, in insertion order
    products,     \* rows of table products (primary key item_code)
    fkEnforced,   \* does the storage engine behind DATABASE_URL enforce
                  \* FOREIGN KEY constraints (SQLite, the default: no)
    req,          \* the request handled last
    res,          \* the answer to it
    committed     \* did that request reach db.commit() and did it succeed

vars == <<bills, items, products, fkEnforced, req, res, committed>>

\* class Bill
Bill(id, display_id, bill_date) ==
    [id |-> id, bill_display_id |-> display_id, bill_date |-> bill_date,
     recipient |-> None, prepared_by |-> None, checked_by |-> None,
     fic_reprography |-> None, job_description |-> None]

\* class BillItem
BillItem(id, name, units, rate, amount, bill_id) ==
    [id |-> id, name |-> name, units |-> units, rate |-> rate,
     amount |-> amount, bill_id |-> bill_id]

\* class Product
Product(item_code, item_name, default_rate) ==
    [item_code |-> item_code, item_name |-> item_name,
     default_rate |-> default_rate]

\* the rows init_db inserts into an empty products table
sample_products ==
    { Product("0000", "Custom Item", 0),
      Product("0001", "A4 Plain Paper Ream", 350),
      Product("0002", "Official Envelope (Pack of 100)", 150),
      Product("0003", "Spiral Binding Service", 50),
      Product("0004", "Color Printout (A4)", 10) }

(* --------------------------- table helpers ---------------------------- *)
Range(s) == { s[k] : k \in 1..Len(s) }

BillIds == { b.id : b \in Range(bills) }

Max(S) == CHOOSE m \in S : \A x \in S : x <= m

\* INTEGER PRIMARY KEY: the largest id in the table plus one
NextBillId == IF bills = <<>> THEN 1 ELSE Max(BillIds) + 1
NextItemId == IF items = <<>> THEN 1 ELSE Max({ i.id : i \in Range(items) }) + 1

\* db.query(Bill).filter(Bill.id == id).first(): position of the row, 0 if none
BillPos(bs, id) ==
    IF \E k \in 1..Len(bs) : bs[k].id = id
    THEN CHOOSE k \in 1..Len(bs) : bs[k].id = id
    ELSE 0

\* db.query(Bill).order_by(Bill.id.desc()).first(): position of the row
CurrentPos(bs) == CHOOSE k \in 1..Len(bs) : \A j \in 1..Len(bs) : bs[j].id <= bs[k].id

\* Column(Text, unique=True): no two rows share a non-NULL bill_display_id
UniqueDisplayId_no_index(bs) == TRUE
UniqueDisplayId(bs) ==
    \A j, k \in 1..Len(bs) :
        (j # k /\ bs[j].bill_display_id # None)
            => bs[j].bill_display_id # bs[k].bill_display_id

\* Column(Text, nullable=False) on bill_date
BillDateNotNull(bs) == \A k \in 1..Len(bs) : bs[k].bill_date # None

\* the constraints of table bills a commit checks
BillsConstraintsOK(bs) == UniqueDisplayId(bs) /\ BillDateNotNull(bs)

\* ForeignKey('bills.id') on bill_items.bill_id, where the engine checks it
ForeignKeyOK(bill_id) == fkEnforced => bill_id \in BillIds

\* current_bill.items: the rows of bill_items of that bill
ItemsOf_every_bill(its, bill_id) == its
ItemsOf(its, bill_id) == SelectSeq(its, LAMBDA i : i.bill_id = bill_id)

\* sum(item['amount'] for item in items)
RECURSIVE sum(_)
sum(s) == IF s = <<>> THEN 0 ELSE Head(s).amount + sum(Tail(s))

(* ------------------------------ answers ------------------------------- *)
NoView == <<>>
Answer(status, location, view) ==
    [status |-> status, location |-> location, view |-> view]
redirect(target) == Answer(302, target, NoView)
\* an exception no handler catches: Flask answers 500
ServerError == Answer(500, "", NoView)
jsonify(status) == Answer(status, "", NoView)

(* ------------------------------- Init --------------------------------- *)
\* The state after init_db() ran on a fresh database: tables created,
\* catalog seeded, no bill yet, no request handled.
Init ==
    /\ bills = <<>>
    /\ items = <<>>
    /\ products = sample_products
    /\ fkEnforced \in BOOLEAN
    /\ req = [op |-> "none"]
    /\ res = Answer(0, "", NoView)
    /\ committed = FALSE

(* ------------------------------ routes -------------------------------- *)
\* "not current_bill.bill_display_id": None and the empty string are falsy
falsy_only_none(text) == text = None
falsy(text) == text \in {None, ""}

\* @app.route('/')
index ==
    /\ req' = [op |-> "index"]
    /\ UNCHANGED <<items, products, fkEnforced>>
    /\ IF bills = <<>>
       THEN /\ res' = redirect("new_bill")
            /\ committed' = FALSE
            /\ UNCHANGED bills
       ELSE LET k == CurrentPos(bills)
                cur == bills[k]
                filled == [bills EXCEPT ![k].bill_display_id = str(cur.id)]
                render(bs) ==
                    LET its == ItemsOf(items, bs[k].id)
                    IN  Answer(200, "", << [bill |-> bs[k], items |-> its,
                                           total_amount |-> sum(its)] >>)
            IN  IF falsy(cur.bill_display_id)
                THEN IF BillsConstraintsOK(filled)
                     THEN /\ bills' = filled
                          /\ committed' = TRUE
                          /\ res' = render(filled)
                     ELSE /\ UNCHANGED bills
                          /\ committed' = FALSE
                          /\ res' = ServerError
                ELSE /\ UNCHANGED bills
                     /\ committed' = FALSE
                     /\ res' = render(bills)

\* amount=int(request.form['units']) * float(request.form['rate'])
amount_rate_only(units, rate) == float(rate)
amount(units, rate) == int(units) * float(rate)

\* @app.route('/add', methods=['POST'])
add_item(item_name, units, rate, bill_id) ==
    /\ req' = [op |-> "add_item", item_name |-> item_name, units |-> units,
               rate |-> rate, bill_id |-> bill_id]
    /\ res' = redirect("index")
    /\ UNCHANGED <<bills, products, fkEnforced>>
    /\ IF /\ Missing \notin {item_name, units, rate, bill_id}   \* KeyError
          /\ IsInt(units) /\ IsFloat(rate) /\ IsInt(bill_id)    \* ValueError
          /\ ForeignKeyOK(int(bill_id))                         \* IntegrityError
       THEN /\ items' = Append(items,
                    BillItem(NextItemId, item_name, int(units), float(rate),
                             amount(units, rate), int(bill_id)))
            /\ committed' = TRUE
       ELSE /\ UNCHANGED items
            /\ committed' = FALSE

\* @app.route('/new')
new_bill ==
    /\ req' = [op |-> "new_bill"]
    /\ UNCHANGED <<items, products, fkEnforced>>
    /\ LET id == NextBillId
           flushed == Append(bills, Bill(id, "", Today))
           k == Len(flushed)
           named == [flushed EXCEPT ![k].bill_display_id = str(id)]
       IN  IF BillsConstraintsOK(flushed) /\ BillsConstraintsOK(named)
           THEN /\ bills' = named
                /\ committed' = TRUE
                /\ res' = redirect("index")
           ELSE /\ UNCHANGED bills
                /\ committed' = FALSE
                /\ res' = ServerError

allowed_with_id ==
    {"id", "bill_display_id", "bill_date", "recipient", "prepared_by",
     "checked_by", "fic_reprography", "job_description"}
allowed ==
    {"bill_display_id", "bill_date", "recipient", "prepared_by", "checked_by",
     "fic_reprography", "job_description"}

\* setattr(bill, field, value)
setattr_recipient(bill, field, value) == [bill EXCEPT !.recipient = value]
setattr(bill, field, value) == [bill EXCEPT ![field] = value]

\* @app.route('/update_bill', methods=['POST'])
update_bill(bill_id, field, value) ==
    /\ req' = [op |-> "update_bill", bill_id |-> bill_id, field |-> field,
               value |-> value]
    /\ UNCHANGED <<items, products, fkEnforced>>
    /\ LET k == BillPos(bills, bill_id)
       IN  IF field \in allowed /\ k # 0
           THEN LET written == [bills EXCEPT ![k] = setattr(bills[k], field, value)]
                IN  IF BillsConstraintsOK(written)
                    THEN /\ bills' = written
                         /\ committed' = TRUE
                         /\ res' = jsonify(200)
                    ELSE /\ UNCHANGED bills
                         /\ committed' = FALSE
                         /\ res' = ServerError
           ELSE /\ UNCHANGED bills
                /\ committed' = FALSE
                /\ res' = jsonify(400)

(* --------------------------- request inputs --------------------------- *)
\* ids a request may name: each is the id of no bill until that bill is
\* created
BillIdInputs == 1..MaxBills

\* the forms posted to /add: item_name, units, rate, bill_id
ItemForms ==
    ({ <<"A4 Plain Paper Ream", "2", "350.00">>,
       <<"A4 Plain Paper Ream", "0", "350.00">>,
       <<"A4 Plain Paper Ream", "2", "-1">>,
       <<"", "2", "350.00">> } \X {"1", "2"})
    \cup
    ({ <<"A4 Plain Paper Ream", "abc", "350.00">>,
       <<"A4 Plain Paper Ream", Missing, "350.00">> } \X {"1"})

\* the JSON bodies posted to /update_bill: bill_id, field, value
PatchRequests ==
    (BillIdInputs \X {"bill_display_id"}
        \X ({None, ""} \cup { str(n) : n \in BillIdInputs }))
    \cup ({1} \X {"recipient"} \X {"Finance Dept"})
    \cup ({1} \X {"bill_date"} \X {None})

\* the same, for the integer column: bill_id, field, value
IdPatchRequests == {1, MaxBills} \X {"id"} \X {MaxBills + 1}

Next ==
    \/ index
    \/ new_bill /\ Len(bills) < MaxBills
    \/ \E f \in ItemForms :
          /\ Len(items) < MaxItems
          /\ add_item(f[1][1], f[1][2], f[1][3], f[2])
    \/ \E p \in PatchRequests \cup IdPatchRequests :
          update_bill(p[1], p[2], p[3])

Spec == Init /\ [][Next]_vars

(* -------------------------- catalog routes ---------------------------- *)
\* the item codes of the model, in the order ORDER BY item_code ASC gives
CodeOrder == <<"0000", "0001", "0002", "0003", "0004", "0005", "0009">>

\* db.query(Product).filter(Product.item_code == item_code).first()
ProductWithCode(ps, item_code) == { p \in ps : p.item_code = item_code }

\* db.query(Product).order_by(Product.item_code.asc()).all()
OrderedProducts(ps) ==
    LET present == SelectSeq(CodeOrder, LAMBDA c : ProductWithCode(ps, c) # {})
    IN  [n \in 1..Len(present) |-> CHOOSE p \in ps : p.item_code = present[n]]

\* the answer of a catalog route; get_products puts the list in it
jsonify_products(list) ==
    [status |-> 200, location |-> "", view |-> NoView, products |-> list]

\* primary_key=True on item_code, nullable=False on item_name
PrimaryKeyFree_upsert(ps, item_code) == TRUE
PrimaryKeyFree(ps, item_code) == ProductWithCode(ps, item_code) = {}
ItemNameNotNull(item_name) == item_name # None

\* def init_db(): seeds the catalog when table products is empty
init_db ==
    /\ req' = [op |-> "init_db"]
    /\ res' = Answer(0, "", NoView)
    /\ UNCHANGED <<bills, items, fkEnforced>>
    /\ IF Cardinality(products) = 0
       THEN /\ products' = sample_products
            /\ committed' = TRUE
       ELSE /\ UNCHANGED products
            /\ committed' = FALSE

\* @app.route('/api/products', methods=['GET'])
get_products ==
    /\ req' = [op |-> "get_products"]
    /\ res' = jsonify_products(OrderedProducts(products))
    /\ committed' = FALSE
    /\ UNCHANGED <<bills, items, products, fkEnforced>>

\* @app.route('/api/products', methods=['POST'])
create_product(item_code, item_name, default_rate) ==
    /\ req' = [op |-> "create_product", item_code |-> item_code,
               item_name |-> item_name, default_rate |-> default_rate]
    /\ UNCHANGED <<bills, items, fkEnforced>>
    /\ IF Missing \in {item_code, item_name, default_rate}       \* KeyError
       THEN /\ res' = jsonify(400)
            /\ committed' = FALSE
            /\ UNCHANGED products
       ELSE IF ~IsFloat(default_rate)               \* ValueError, not caught
       THEN /\ res' = ServerError
            /\ committed' = FALSE
            /\ UNCHANGED products
       ELSE IF /\ PrimaryKeyFree(products, item_code)         \* IntegrityError
               /\ ItemNameNotNull(item_name)
       THEN /\ products' = products \cup
                    { Product(item_code, item_name, float(default_rate)) }
            /\ committed' = TRUE
            /\ res' = jsonify(201)
       ELSE /\ res' = jsonify(400)
            /\ committed' = FALSE
            /\ UNCHANGED products

\* @app.route('/api/products/<string:item_code>', methods=['PUT'])
update_product(item_code, item_name, default_rate) ==
    /\ req' = [op |-> "update_product", item_code |-> item_code,
               item_name |-> item_name, default_rate |-> default_rate]
    /\ UNCHANGED <<bills, items, fkEnforced>>
    /\ IF ProductWithCode(products, item_code) = {}
       THEN /\ res' = jsonify(404)
            /\ committed' = FALSE
            /\ UNCHANGED products
       ELSE LET product == CHOOSE p \in products : p.item_code = item_code
                \* data.get(key, current value)
                name == IF item_name = Missing THEN product.item_name
                        ELSE item_name
            IN  IF \/ (default_rate # Missing /\ ~IsFloat(default_rate))
                   \/ ~ItemNameNotNull(name)     \* ValueError, IntegrityError
                THEN /\ res' = ServerError
                     /\ committed' = FALSE
                     /\ UNCHANGED products
                ELSE /\ products' = (products \ {product}) \cup
                        { Product(item_code, name,
                                  IF default_rate = Missing
                                  THEN product.default_rate
                                  ELSE float(default_rate)) }
                     /\ committed' = TRUE
                     /\ res' = jsonify(200)

\* db.delete(product), product the row the filter on item_code selects
db_delete_unfiltered(ps, item_code) == ps \ {OrderedProducts(ps)[1]}
db_delete(ps, item_code) == ps \ ProductWithCode(ps, item_code)

\* if item_code == '0000': the custom item is never deleted
reserved_none(item_code) == FALSE
reserved(item_code) == item_code = "0000"

\* @app.route('/api/products/<string:item_code>', methods=['DELETE'])
delete_product_cascade(item_code) ==
    /\ req' = [op |-> "delete_product", item_code |-> item_code]
    /\ UNCHANGED <<bills, fkEnforced>>
    /\ IF reserved(item_code)
       THEN /\ res' = jsonify(403)
            /\ committed' = FALSE
            /\ UNCHANGED <<products, items>>
       ELSE IF ProductWithCode(products, item_code) # {}
       THEN /\ products' = db_delete(products, item_code)
            /\ items' = SelectSeq(items, LAMBDA i :
                  \A p \in ProductWithCode(products, item_code) :
                      i.name # p.item_name)
            /\ committed' = TRUE
            /\ res' = jsonify(200)
       ELSE /\ res' = jsonify(404)
            /\ committed' = FALSE
            /\ UNCHANGED <<products, items>>
delete_product(item_code) ==
    /\ req' = [op |-> "delete_product", item_code |-> item_code]
    /\ UNCHANGED <<bills, items, fkEnforced>>
    /\ IF reserved(item_code)
       THEN /\ res' = jsonify(403)
            /\ committed' = FALSE
            /\ UNCHANGED products
       ELSE IF ProductWithCode(products, item_code) # {}
       THEN /\ products' = db_delete(products, item_code)
            /\ committed' = TRUE
            /\ res' = jsonify(200)
       ELSE /\ res' = jsonify(404)
            /\ committed' = FALSE
            /\ UNCHANGED products

(* ----------------------- catalog request inputs ----------------------- *)
\* the JSON bodies posted to /api/products: item_code, item_name,
\* default_rate
CreateBodies ==
    ({"0000", "0005"} \X {"Lamination", ""} \X {"2", "abc"})
    \cup ({"0005"} \X {Missing, None} \X {"2"})
    \cup ({"0005"} \X {"Lamination"} \X {Missing})

\* the PUT requests: item_code of the path, item_name and default_rate of
\* the body (Missing: the key is absent)
UpdateRequests ==
    {"0000", "0001", "0009"}
        \X { <<"Renamed", Missing>>, <<Missing, "2">>, <<Missing, "abc">> }

\* the item codes of the DELETE requests
DeleteCodes == {"0000", "0001", "0005", "0009"}

\* every route, with the bill routes on the requests that do not depend on
\* the display id
NextCatalog ==
    \/ init_db
    \/ get_products
    \/ \E b \in CreateBodies : create_product(b[1], b[2], b[3])
    \/ \E u \in UpdateRequests : update_product(u[1], u[2][1], u[2][2])
    \/ \E c \in DeleteCodes : delete_product(c)
    \/ index
    \/ new_bill /\ Len(bills) < MaxBills
    \/ /\ Len(items) < MaxItems
       /\ add_item("A4 Plain Paper Ream", "2", "350.00", "1")
    \/ update_bill(1, "recipient", "Finance Dept")

SpecCatalog == Init /\ [][NextCatalog]_vars

(* ------------------------ bills of several lines ---------------------- *)
MaxLines == 3

\* the forms posted to /add: item_name, units, rate, bill_id; the amounts
\* are 700 and -2
LineForms ==
    { <<"A4 Plain Paper Ream", "2", "350.00">>,
      <<"Custom Item", "2", "-1">> } \X {"1", "2"}

\* the routes that create bills and lines and show them
NextLines ==
    \/ index
    \/ new_bill /\ Len(bills) < MaxBills
    \/ \E f \in LineForms :
          /\ Len(items) < MaxLines
          /\ add_item(f[1][1], f[1][2], f[1][3], f[2])

SpecLines == Init /\ [][NextLines]_vars

(* ------------------------- claim vocabulary --------------------------- *)
Last(s) == s[Len(s)]
HasView(r) == r.view # NoView
ViewOf(r) == r.view[1]

\* the allow-list of patchable attributes, as the contract enumerates it
ContractAllowList ==
    {"bill_display_id", "bill_date", "recipient", "prepared_by", "checked_by",
     "fic_reprography", "job_description"}

\* an append request whose bill_id names a bill of table bs
NamesBill(r, bs) ==
    /\ r.bill_id # Missing /\ IsInt(r.bill_id)
    /\ \E k \in 1..Len(bs) : bs[k].id = int(r.bill_id)

WellFormed(r) ==
    /\ Missing \notin {r.item_name, r.units, r.rate}
    /\ IsInt(r.units) /\ IsFloat(r.rate)

\* units <= 0, or rate < 0, or an empty name
InvalidAppend(r) ==
    /\ WellFormed(r)
    /\ (int(r.units) <= 0 \/ float(r.rate) < 0 \/ r.item_name = "")

\* non-empty name, units > 0, rate >= 0
ValidAppend(r) ==
    /\ WellFormed(r)
    /\ int(r.units) > 0 /\ float(r.rate) >= 0 /\ r.item_name # ""

(* ------------------------------- C1 ----------------------------------- *)
\* C1: an append with units <= 0, or rate < 0, or an empty name, whose
\* bill_id names an existing bill, leaves table bill_items as it was.
C1_InvalidAppendIsNoOp ==
    [][ (req'.op = "add_item" /\ InvalidAppend(req') /\ NamesBill(req', bills))
            => items' = items ]_vars

(* ------------------------------- C2 ----------------------------------- *)
\* C2: in every reachable state the bill_id of every bill item is the id
\* of an existing bill.
C2_ItemsReferenceBills ==
    \A i \in Range(items) : i.bill_id \in BillIds

(* ------------------------------- C3 ----------------------------------- *)
Assigned(text) == text \notin {None, ""}

NoDuplicateDisplayId ==
    \A j, k \in 1..Len(bills) :
        (j # k /\ Assigned(bills[j].bill_display_id))
            => bills[j].bill_display_id # bills[k].bill_display_id

\* the request handled in this step would give the bill at position k the
\* assigned display id another bill already has
WouldDuplicate ==
    \/ /\ req'.op = "update_bill"
       /\ req'.field = "bill_display_id"
       /\ Assigned(req'.value)
       /\ \E j, k \in 1..Len(bills) :
            j # k /\ bills[k].id = req'.bill_id
                  /\ bills[j].bill_display_id = req'.value
    \/ /\ req'.op = "new_bill"
       /\ \E j \in 1..Len(bills) : bills[j].bill_display_id = str(NextBillId)
    \/ /\ req'.op = "index"
       /\ bills # <<>>
       /\ LET k == CurrentPos(bills)
          IN  /\ ~Assigned(bills[k].bill_display_id)
              /\ \E j \in 1..Len(bills) :
                    j # k /\ bills[j].bill_display_id = str(bills[k].id)

\* C3: no two distinct bills have the same assigned (non-empty) display id,
\* and a request that would create such a pair fails and writes nothing.
C3_DisplayIdUnique ==
    /\ []NoDuplicateDisplayId
    /\ [][ WouldDuplicate =>
             (res'.status = 500 /\ ~committed'
                /\ UNCHANGED <<bills, items, products>>) ]_vars

\* a patch of display_id to the value another bill holds has been refused
C3_Witness ==
    /\ req.op = "update_bill" /\ req.field = "bill_display_id"
    /\ Assigned(req.value)
    /\ res.status = 500
    /\ \E j, k \in 1..Len(bills) :
          j # k /\ bills[k].id = req.bill_id
                /\ bills[j].bill_display_id = req.value
                /\ bills[k].bill_display_id # req.value

(* ------------------------------- C4 ----------------------------------- *)
\* C4: a create-bill request never fails: it adds exactly one bill, whose
\* id is greater than every existing id and which has no items, and leaves
\* every existing bill and bill item unchanged.
C4_CreateBillNeverFails ==
    [][ req'.op = "new_bill" =>
          /\ res'.status # 500
          /\ Len(bills') = Len(bills) + 1
          /\ SubSeq(bills', 1, Len(bills)) = bills
          /\ \A b \in Range(bills) : Last(bills').id > b.id
          /\ ItemsOf(items', Last(bills').id) = <<>>
          /\ items' = items ]_vars

(* ------------------------------- C5 ----------------------------------- *)
\* C5: every bill view the current-bill read returns shows a bill with a
\* non-empty display id.
C5_ViewHasDisplayId ==
    (req.op = "index" /\ HasView(res))
        => Assigned(ViewOf(res).bill.bill_display_id)

\* the read returned a view after it had to assign the display id itself
C5_Witness ==
    /\ req.op = "index" /\ HasView(res) /\ committed
    /\ ViewOf(res).bill.bill_display_id = str(ViewOf(res).bill.id)

(* ------------------------------- C6 ----------------------------------- *)
\* C6: the current-bill read returns the bill with the highest id, and
\* signals NotFound (the redirect to bill creation) exactly when no bill
\* exists; the first read after a bill creation returns the bill just
\* created, with an empty item list.
C6_CurrentIsHighestId ==
    [][ req'.op = "index" =>
          /\ (res' = redirect("new_bill")) <=> (bills = <<>>)
          /\ bills # <<>> =>
                /\ HasView(res')
                /\ ViewOf(res').bill.id = Max(BillIds)
          /\ (req.op = "new_bill" /\ committed) =>
                /\ HasView(res')
                /\ ViewOf(res').bill = Last(bills)
                /\ ViewOf(res').items = <<>> ]_vars

(* ------------------------------- C7 ----------------------------------- *)
\* the effect of a valid append on table bill_items: one row more, holding
\* the request's values and the amount units * rate
ValidAppendAddsOne ==
    (req'.op = "add_item" /\ ValidAppend(req') /\ NamesBill(req', bills)) =>
        /\ Len(items') = Len(items) + 1
        /\ SubSeq(items', 1, Len(items)) = items
        /\ Last(items').name = req'.item_name
        /\ Last(items').units = int(req'.units)
        /\ Last(items').rate = float(req'.rate)
        /\ Last(items').bill_id = int(req'.bill_id)
        /\ Last(items').amount = Last(items').units * Last(items').rate

\* the request before this step was a valid append that inserted a row
AfterValidAppend ==
    /\ req.op = "add_item" /\ ValidAppend(req) /\ NamesBill(req, bills)
    /\ committed

C8_DisallowedFieldRejected ==
    [][ /\ (req'.op = "update_bill" /\ req'.field \notin ContractAllowList) =>
              (res'.status = 400 /\ ~committed' /\ bills' = bills)
        /\ \A k \in 1..Len(bills) :
              Len(bills') >= k /\ bills'[k].id = bills[k].id ]_vars

\* a patch of field "id" of an existing bill has been answered
C8_Witness ==
    /\ req.op = "update_bill" /\ req.field = "id"
    /\ req.bill_id \in BillIds
    /\ res.status = 400

(* ------------------------------- C9 ----------------------------------- *)
\* C9: a patch of an allowed field of a bill that does not exist is
\* answered 404, not the 400 of a disallowed field, and writes nothing.
C9_UnknownBillIs404 ==
    (req.op = "update_bill" /\ req.field \in ContractAllowList
        /\ req.bill_id \notin BillIds)
        => (res.status = 404 /\ ~committed)

(* ------------------------------- C10 ---------------------------------- *)
\* the effect of a successful patch on the tables: that attribute of that
\* bill holds the value, everything else is as before
PatchWritesOneAttribute ==
    (req'.op = "update_bill" /\ res'.status = 200) =>
        /\ Len(bills') = Len(bills)
        /\ \A k \in 1..Len(bills) :
              IF bills[k].id = req'.bill_id
              THEN /\ bills'[k][req'.field] = req'.value
                   /\ \A f \in (DOMAIN bills[k]) \ {req'.field} :
                         bills'[k][f] = bills[k][f]
              ELSE bills'[k] = bills[k]
        /\ UNCHANGED <<items, products>>

\* this step is a current-bill read that returns the bill the request
\* before it patched successfully
ReadOfPatchedBill ==
    /\ req.op = "update_bill" /\ res.status = 200
    /\ req'.op = "index" /\ HasView(res')
    /\ ViewOf(res').bill.id = req.bill_id

\* C10 as stated: a successful patch sets exactly that attribute of that
\* bill to the value (the empty string included) and nothing else, and a
\* following current-bill read of that bill shows the value.  The read is
\* stated for the values the request carries as a string.
C10_PatchReflectedInRead ==
    [][ /\ PatchWritesOneAttribute
        /\ (ReadOfPatchedBill /\ req.value # None) =>
              ViewOf(res').bill[req.field] = req.value ]_vars

\* C10 (amended): as stated, except that after a patch of display_id to
\* the empty string or to null the read shows the bill's id as a string.
C10_PatchReflectedUnlessBackfilled ==
    [][ /\ PatchWritesOneAttribute
        /\ ReadOfPatchedBill =>
              ViewOf(res').bill[req.field] =
                  IF req.field = "bill_display_id" /\ ~Assigned(req.value)
                  THEN str(req.bill_id)
                  ELSE req.value ]_vars

\* the display id of the bill with the highest id has been patched to the
\* empty string
C10_Witness ==
    /\ req.op = "update_bill" /\ res.status = 200
    /\ req.field = "bill_display_id" /\ req.value = ""
    /\ req.bill_id = Max(BillIds)
    /\ \E k \in 1..Len(bills) :
          bills[k].id = req.bill_id /\ bills[k].bill_display_id = ""

(* ------------------------------- C11 ---------------------------------- *)
\* the answers the contract names
Forbidden == jsonify(403)
NotFound == jsonify(404)
Conflict == jsonify(400)

\* C11: a delete of item code "0000" is answered Forbidden in every
\* catalog state, which is not the NotFound answer, and leaves the catalog
\* unchanged.
C11_DeleteReservedForbidden ==
    [][ (req'.op = "delete_product" /\ req'.item_code = "0000") =>
          /\ res' = Forbidden /\ res' # NotFound
          /\ ~committed'
          /\ products' = products ]_vars

\* a delete of "0000" has been answered, on a catalog other requests have
\* changed
C11_Witness ==
    /\ req.op = "delete_product" /\ req.item_code = "0000"
    /\ res.status = 403
    /\ products # sample_products

(* ------------------------------- C12 ---------------------------------- *)
\* C12: every reachable catalog holds exactly one product with item code
\* "0000".
C12_ExactlyOneReserved ==
    Cardinality(ProductWithCode(products, "0000")) = 1

\* products have been created, updated and deleted, the reserved one
\* renamed
C12_Witness ==
    /\ ProductWithCode(products, "0001") = {}
    /\ ProductWithCode(products, "0005") # {}
    /\ \E p \in products : p.item_code = "0000" /\ p.item_name = "Renamed"

(* ------------------------------- C13 ---------------------------------- *)
\* C13: a create request whose item_code is already in the catalog is
\* answered Conflict and leaves the catalog unchanged.
C13_DuplicateCodeConflict ==
    [][ (/\ req'.op = "create_product"
         /\ ProductWithCode(products, req'.item_code) # {}) =>
          (res' = Conflict /\ products' = products) ]_vars

(* ------------------------------- C14 ---------------------------------- *)
\* a create request with a missing field, a non-numeric default_rate or an
\* empty item_name
MalformedCreate(r) ==
    \/ Missing \in {r.item_code, r.item_name, r.default_rate}
    \/ ~IsFloat(r.default_rate)
    \/ r.item_name = ""

\* C14: a malformed create request is answered like a duplicate code (400)
\* and writes nothing; every product has a non-empty item_name.
C14_MalformedCreateRejected ==
    /\ [](\A p \in products : p.item_name # "")
    /\ [][ (req'.op = "create_product" /\ MalformedCreate(req')) =>
             (res' = Conflict /\ ~committed' /\ products' = products) ]_vars

(* ------------------------------- C15 ---------------------------------- *)
\* C15: a delete of an existing item code other than "0000" removes that
\* product and no other and changes no bill and no bill item, and a
\* following product list does not contain the code; a delete of a code
\* not in the catalog is answered NotFound and changes nothing.
C15_DeleteRemovesExactlyOne ==
    [][ /\ (req'.op = "delete_product" /\ req'.item_code # "0000") =>
              IF ProductWithCode(products, req'.item_code) # {}
              THEN /\ res'.status = 200
                   /\ products' = { p \in products :
                                       p.item_code # req'.item_code }
                   /\ Cardinality(products') = Cardinality(products) - 1
                   /\ UNCHANGED <<bills, items>>
              ELSE /\ res' = NotFound
                   /\ UNCHANGED <<bills, items, products>>
        /\ (/\ req.op = "delete_product" /\ res.status = 200
            /\ req'.op = "get_products") =>
              \A n \in 1..Len(res'.products) :
                  res'.products[n].item_code # req.item_code ]_vars

\* a product has been deleted while a bill with an item exists
C15_Witness ==
    /\ req.op = "delete_product" /\ req.item_code = "0001"
    /\ res.status = 200
    /\ ProductWithCode(products, "0001") = {}
    /\ bills # <<>> /\ items # <<>>

(* ------------------------------- C16 ---------------------------------- *)
\* the sum of the amounts of a set of bill item rows, taken in no order
RECURSIVE SumOfRows(_)
SumOfRows(S) ==
    IF S = {} THEN 0
    ELSE LET r == CHOOSE x \in S : TRUE IN r.amount + SumOfRows(S \ {r})

\* the rows of bill_items whose bill_id is the id of the bill a view shows
OwnedBy(v) == { i \in Range(items) : i.bill_id = v.bill.id }

\* C16: the total of every current-bill view is the sum of the stored
\* amounts of exactly the items of the bill shown, whatever their order,
\* and 0 when the bill has none.
C16_TotalIsSumOfOwnedAmounts ==
    (req.op = "index" /\ HasView(res)) =>
        LET v == ViewOf(res)
        IN  /\ Range(v.items) = OwnedBy(v)
            /\ Len(v.items) = Cardinality(OwnedBy(v))
            /\ v.total_amount = SumOfRows(OwnedBy(v))
            /\ OwnedBy(v) = {} => v.total_amount = 0

\* a view of a bill with two items of different amounts, while another
\* bill has an item too
C16_Witness ==
    /\ req.op = "index" /\ HasView(res)
    /\ Len(ViewOf(res).items) = 2
    /\ ViewOf(res).total_amount = 698
    /\ \E i \in Range(items) : i.bill_id # ViewOf(res).bill.id

(* ------------------------------- C17 ---------------------------------- *)
\* the positions of the bills whose display id is empty or null
Unassigned == { k \in 1..Len(bills) : ~Assigned(bills[k].bill_display_id) }

\* C17: at most one bill has an empty or unassigned display id, and it is
\* the bill with the highest id.
C17_OnlyNewestUnassigned ==
    /\ Cardinality(Unassigned) <= 1
    /\ \A k \in Unassigned : bills[k].id = Max(BillIds)

====
